---- MODULE Spec2Model ----
(***************************************************************************)
(* uvbump: report outdated dependency pins of a uv or npm project.         *)
(*                                                                         *)
(* A Python str is modelled as a sequence of one-character strings, so     *)
(* that split, startswith, strip and `in` are computed as Python computes  *)
(* them.  None is the one-element sequence <<"None">>, which no str        *)
(* equals (its element has four characters).                               *)
(*                                                                         *)
(* Five specifications share the variables:                                *)
(*   SpecPure    one call of a pure function on a bounded input            *)
(*   SpecReader  one call of a Project method on a bounded file system     *)
(*   SpecFill    one call of a fill pass on a bounded ledger               *)
(*   SpecReport  one call of display_package_information on a ledger       *)
(*   Spec        one run of main                                           *)
(***************************************************************************)
EXTENDS Naturals, Sequences, FiniteSets

VARIABLES
    pc,         \* position of the program
    kind,       \* --kind: "uv" or "npm"
    fs,         \* the files under --root
    arg,        \* SpecPure: the str the function under test is called with;
                \* SpecFill: the answers of the external queries the call
                \* consumed; SpecReport: require_newest_version
    ret,        \* SpecPure, SpecReader, SpecFill: what the call returned or
                \* raised
    packages,   \* main's list of Package; SpecFill, SpecReport: the list the
                \* call is handed
    error,      \* the exception that ended main, "none" if none did
    exitCode,   \* <<status>> once the process has exited, <<>> while it runs
    installedQueries, \* external installed-version queries started so far
    newestQueries,    \* external latest-version queries started so far
    cursor,     \* index of the next Package of the latest-version loop
    report      \* the lines logged by display_package_information

vars == <<pc, kind, fs, arg, ret, packages, error, exitCode,
          installedQueries, newestQueries, cursor, report>>

----------------------------------------------------------------------------
(* Bounds *)

\* longest str handed to the Spec Parser in SpecPure
MaxLen == 4
\* longest registry spec handed to _normalize_spec in SpecPure
MaxSpecLen == 4
\* SpecReader: most dependency listings in the pyproject.toml files together
MaxListings == 3
\* SpecReader: most entries in the sections of package.json together
MaxNpmEntries == 2
\* Spec: most entries of the manifest main reads
MaxPackages == 2
\* Spec: most lines `uv export` prints
MaxLines == 2

----------------------------------------------------------------------------
(* Python str operations *)

None == <<"None">>

Whitespace == {" ", "\t", "\n"}

RECURSIVE SeqsUpTo(_, _)
SeqsUpTo(S, n) ==
    IF n = 0 THEN {<<>>}
    ELSE LET shorter == SeqsUpTo(S, n - 1)
         IN  shorter \cup {Append(s, x) : s \in {t \in shorter : Len(t) = n - 1}, x \in S}

Range(s) == {s[i] : i \in 1..Len(s)}

\* s.startswith(p)
StartsWith(s, p) == Len(s) >= Len(p) /\ SubSeq(s, 1, Len(p)) = p

\* s.find(sub) from position i, 1-based; 0 when sub does not occur
RECURSIVE Find(_, _, _)
Find(s, sub, i) ==
    IF i + Len(sub) - 1 > Len(s) THEN 0
    ELSE IF SubSeq(s, i, i + Len(sub) - 1) = sub THEN i
    ELSE Find(s, sub, i + 1)

\* sub in s
Contains(s, sub) == Find(s, sub, 1) # 0

\* s.split(sep): cut at every non-overlapping occurrence, left to right
RECURSIVE Split(_, _)
Split(s, sep) ==
    LET i == Find(s, sep, 1)
    IN  IF i = 0 THEN <<s>>
        ELSE <<SubSeq(s, 1, i - 1)>> \o Split(SubSeq(s, i + Len(sep), Len(s)), sep)

\* s.split(sep, 1): cut at the first occurrence only
Split1(s, sep) ==
    LET i == Find(s, sep, 1)
    IN  IF i = 0 THEN <<s>>
        ELSE <<SubSeq(s, 1, i - 1), SubSeq(s, i + Len(sep), Len(s))>>

RECURSIVE LStrip(_)
LStrip(s) == IF s # <<>> /\ Head(s) \in Whitespace THEN LStrip(Tail(s)) ELSE s

RECURSIVE RStrip(_)
RStrip(s) ==
    IF s # <<>> /\ s[Len(s)] \in Whitespace THEN RStrip(SubSeq(s, 1, Len(s) - 1)) ELSE s

\* s.strip()
Strip(s) == RStrip(LStrip(s))

----------------------------------------------------------------------------
(* Spec Parser *)

GE == <<">", "=">>
LE == <<"<", "=">>
EQ == <<"=", "=">>
GT == <<">">>
LT == <<"<">>
Comma == <<",">>

\* uv.py: the if/elif chain that picks split_by; <<>> when it reaches else
SplitBy(cleaned_listing) ==
    IF Contains(cleaned_listing, GE) THEN GE
    ELSE IF Contains(cleaned_listing, LE) THEN LE
    ELSE IF Contains(cleaned_listing, EQ) THEN EQ
    ELSE IF Contains(cleaned_listing, LT) THEN LT
    ELSE IF Contains(cleaned_listing, GT) THEN GT
    ELSE <<>>

\* uv.py split_package_from_version: a (package_name, version) pair, or the
\* exception raised; the unpacking of line 33 raises ValueError unless the
\* split has exactly two parts
split_package_from_version(listing) ==
    LET cleaned_listing == Head(Split(listing, Comma))
        split_by == SplitBy(cleaned_listing)
    IN  IF split_by = <<>>
        THEN [raised |-> "UnknownPackageVersionSchemeError", value |-> <<>>]
        ELSE LET parts == Split(cleaned_listing, split_by)
             IN  IF Len(parts) # 2
                 THEN [raised |-> "ValueError", value |-> <<>>]
                 ELSE [raised |-> "none", value |-> <<parts[1], parts[2]>>]

_OPERATORS == <<GE, LE, EQ, GT, LT>>

\* scripts/apply_version_config.py _split_listing: the for loop over
\* _OPERATORS from index i on
RECURSIVE SplitListingFrom(_, _)
SplitListingFrom(cleaned_listing, i) ==
    IF i > Len(_OPERATORS)
    THEN [raised |-> "VersionConfigError", value |-> <<>>]
    ELSE IF Contains(cleaned_listing, _OPERATORS[i])
         THEN LET parts == Split1(cleaned_listing, _OPERATORS[i])
              IN  [raised |-> "none",
                   value |-> <<Strip(parts[1]), _OPERATORS[i], Strip(parts[2])>>]
         ELSE SplitListingFrom(cleaned_listing, i + 1)

_split_listing(listing) == SplitListingFrom(Head(Split(listing, Comma)), 1)

----------------------------------------------------------------------------
(* npm.py _normalize_spec *)

NormalizeMarkersShortFirst == <<<<"^">>, <<"~">>, GT, LT, <<"=">>, GE, LE>>

NormalizeMarkers == <<<<"^">>, <<"~">>, GE, LE, GT, LT, <<"=">>>>

RECURSIVE NormalizeFrom(_, _)
NormalizeFrom(spec, i) ==
    IF i > Len(NormalizeMarkers) THEN spec
    ELSE IF StartsWith(spec, NormalizeMarkers[i])
         THEN SubSeq(spec, Len(NormalizeMarkers[i]) + 1, Len(spec))
         ELSE NormalizeFrom(spec, i + 1)

_normalize_spec(spec) == NormalizeFrom(spec, 1)

----------------------------------------------------------------------------
(* SpecPure: one call of a pure function *)

ParseAlphabet == {"a", "1", " ", ",", ">", "<", "="}
SpecAlphabet == {"^", "~", ">", "<", "=", "1"}

\* the spec's own examples, longer than the bound
ExampleSpecs ==
    { <<"^", "1", ".", "2", ".", "3">>, <<"~", "1", ".", "2", ".", "3">>,
      <<"1", ".", "2", ".", "3">>, <<">", "=", "1", ".", "2", ".", "3">> }

ExampleListings ==
    { <<"a", " ", ">", "=", " ", "1">>, <<"a", ">", "=", "1", ",", "<", "2">> }

Idle ==
    /\ packages = <<>> /\ error = "none"
    /\ exitCode = <<>> /\ installedQueries = 0 /\ newestQueries = 0
    /\ cursor = 0 /\ report = [out_of_date |-> <<>>, can_be_bumped |-> <<>>, lines |-> <<>>]

InitPure ==
    /\ Idle /\ kind = "none" /\ fs = <<>>
    /\ ret = [raised |-> "none", value |-> <<>>]
    /\ \/ pc = "parse" /\ arg \in SeqsUpTo(ParseAlphabet, MaxLen) \cup ExampleListings
       \/ pc = "normalize" /\ arg \in SeqsUpTo(SpecAlphabet, MaxSpecLen) \cup ExampleSpecs

UnchangedRun ==
    UNCHANGED <<kind, fs, packages, error, exitCode, installedQueries,
                newestQueries, cursor, report>>

CallSplitPackageFromVersion ==
    /\ pc = "parse"
    /\ ret' = split_package_from_version(arg)
    /\ pc' = "parsed_uv"
    /\ UNCHANGED arg /\ UnchangedRun

CallSplitListing ==
    /\ pc = "parse"
    /\ ret' = _split_listing(arg)
    /\ pc' = "parsed_script"
    /\ UNCHANGED arg /\ UnchangedRun

CallNormalizeSpec ==
    /\ pc = "normalize"
    /\ ret' = [raised |-> "none", value |-> _normalize_spec(arg)]
    /\ pc' = "normalized"
    /\ UNCHANGED arg /\ UnchangedRun

NextPure == CallSplitPackageFromVersion \/ CallSplitListing \/ CallNormalizeSpec

SpecPure == InitPure /\ [][NextPure]_vars

----------------------------------------------------------------------------
(* Files under --root *)

\* a Package (core.py): installed_version and newest_version default to None
Package(name, project_version) ==
    [name |-> name, project_version |-> project_version,
     installed_version |-> None, newest_version |-> None]

MemberNames == {"m1", "m2"}

\* a parsed pyproject.toml: project.dependencies, the value lists of
\* project.dependency-groups and of dependency-groups in file order, and
\* tool.uv.workspace.members
EmptyPyproject ==
    [dependencies |-> <<>>, project_groups |-> <<>>, groups |-> <<>>, members |-> <<>>]

\* a parsed package.json: each section the (name, spec) pairs in file order
EmptyPackageJson ==
    [dependencies |-> <<>>, devDependencies |-> <<>>,
     peerDependencies |-> <<>>, optionalDependencies |-> <<>>]

AbsentPyproject == [exists |-> FALSE, data |-> EmptyPyproject]
AbsentPackageJson == [exists |-> FALSE, data |-> EmptyPackageJson]

NoFiles ==
    [pyproject |-> AbsentPyproject,
     member |-> [m \in MemberNames |-> AbsentPyproject],
     package_json |-> AbsentPackageJson]

----------------------------------------------------------------------------
(* uv.py: Manifest Reader of the lockfile ecosystem *)

RECURSIVE Flatten(_)
Flatten(lists) == IF lists = <<>> THEN <<>> ELSE Head(lists) \o Flatten(Tail(lists))

_collect_dependency_listings(data) ==
    data.dependencies \o Flatten(data.project_groups) \o Flatten(data.groups)

\* a member whose pyproject.toml is read without the exists() test
MemberListingsUnchecked(files, member) ==
    IF files.member[member].exists
    THEN [raised |-> "none", value |-> _collect_dependency_listings(files.member[member].data)]
    ELSE [raised |-> "FileNotFoundError", value |-> <<>>]

\* the body of the loop over workspace members, lines 68-71
MemberListings(files, member) ==
    IF files.member[member].exists
    THEN [raised |-> "none", value |-> _collect_dependency_listings(files.member[member].data)]
    ELSE [raised |-> "none", value |-> <<>>]

\* the loop over workspace members from index i on, listings so far in acc
RECURSIVE ExtendWithMembers(_, _, _, _)
ExtendWithMembers(files, members, i, acc) ==
    IF i > Len(members) THEN [raised |-> "none", value |-> acc]
    ELSE LET got == MemberListings(files, members[i])
         IN  IF got.raised # "none" THEN got
             ELSE ExtendWithMembers(files, members, i + 1, acc \o got.value)

\* a dedup loop that keeps the last occurrence of each listing
RECURSIVE UniqueKeepLast(_, _, _, _)
UniqueKeepLast(listings, i, unique, seen) ==
    IF i > Len(listings) THEN unique
    ELSE IF \E j \in (i + 1)..Len(listings) : listings[j] = listings[i]
         THEN UniqueKeepLast(listings, i + 1, unique, seen)
         ELSE UniqueKeepLast(listings, i + 1, Append(unique, listings[i]), seen)

\* the dedup loop of lines 73-78 from index i on
RECURSIVE Unique(_, _, _, _)
Unique(listings, i, unique, seen) ==
    IF i > Len(listings) THEN unique
    ELSE IF listings[i] \notin seen
         THEN Unique(listings, i + 1, Append(unique, listings[i]), seen \cup {listings[i]})
         ELSE Unique(listings, i + 1, unique, seen)

\* UvProject.dependency_listings
dependency_listings(files) ==
    IF ~files.pyproject.exists
    THEN [raised |-> "FileNotFoundError", value |-> <<>>]
    ELSE LET root_data == files.pyproject.data
             all == ExtendWithMembers(files, root_data.members, 1,
                                      _collect_dependency_listings(root_data))
         IN  IF all.raised # "none" THEN all
             ELSE [raised |-> "none", value |-> Unique(all.value, 1, <<>>, {})]

\* the list comprehension of UvProject.packages from index i on
RECURSIVE UvPackagesFrom(_, _, _)
UvPackagesFrom(listings, i, acc) ==
    IF i > Len(listings) THEN [raised |-> "none", value |-> acc]
    ELSE LET split == split_package_from_version(listings[i])
         IN  IF split.raised # "none" THEN [raised |-> split.raised, value |-> <<>>]
             ELSE UvPackagesFrom(listings, i + 1,
                                 Append(acc, Package(split.value[1], split.value[2])))

\* UvProject.packages
UvPackages(files) ==
    LET listed == dependency_listings(files)
    IN  IF listed.raised # "none" THEN listed
        ELSE UvPackagesFrom(listed.value, 1, <<>>)

----------------------------------------------------------------------------
(* npm.py: Manifest Reader of the registry ecosystem *)

\* a dict kept as the sequence of its (key, value) pairs in insertion order

DictKeys(d) == {d[i][1] : i \in 1..Len(d)}

DictGet(d, k) == d[CHOOSE i \in 1..Len(d) : d[i][1] = k][2]

\* d[k] = v: a new key goes last, a known key keeps its place
DictSet(d, k, v) ==
    IF k \in DictKeys(d)
    THEN [i \in 1..Len(d) |-> IF d[i][1] = k THEN <<k, v>> ELSE d[i]]
    ELSE Append(d, <<k, v>>)

\* d.update(pairs)
RECURSIVE DictUpdate(_, _)
DictUpdate(d, pairs) ==
    IF pairs = <<>> THEN d
    ELSE DictUpdate(DictSet(d, Head(pairs)[1], Head(pairs)[2]), Tail(pairs))

\* NpmProject.dependency_specs
dependency_specs(files) ==
    IF ~files.package_json.exists
    THEN [raised |-> "FileNotFoundError", value |-> <<>>]
    ELSE LET data == files.package_json.data
         IN  [raised |-> "none",
              value |-> DictUpdate(DictUpdate(DictUpdate(DictUpdate(<<>>,
                            data.dependencies), data.devDependencies),
                            data.peerDependencies), data.optionalDependencies)]

GitPlus == <<"g", "i", "t", "+">>
FileColon == <<"f", "i", "l", "e", ":">>
HttpColon == <<"h", "t", "t", "p", ":">>
HttpsColon == <<"h", "t", "t", "p", "s", ":">>

NonRegistryPrefixes == {GitPlus, FileColon, HttpColon, HttpsColon}

\* a loop body that skips a non-registry spec instead of raising
NpmPackageOfSkipping(acc, name, spec) ==
    IF \E prefix \in NonRegistryPrefixes : StartsWith(spec, prefix)
    THEN [raised |-> "none", value |-> acc]
    ELSE [raised |-> "none", value |-> Append(acc, Package(name, _normalize_spec(spec)))]

\* the body of the loop of NpmProject.packages, lines 42-45
NpmPackageOf(acc, name, spec) ==
    IF \E prefix \in NonRegistryPrefixes : StartsWith(spec, prefix)
    THEN [raised |-> "UnsupportedPackageTypeError", value |-> <<>>]
    ELSE [raised |-> "none", value |-> Append(acc, Package(name, _normalize_spec(spec)))]

\* the loop of NpmProject.packages from index i on
RECURSIVE NpmPackagesFrom(_, _, _)
NpmPackagesFrom(specs, i, acc) ==
    IF i > Len(specs) THEN [raised |-> "none", value |-> acc]
    ELSE LET got == NpmPackageOf(acc, specs[i][1], specs[i][2])
         IN  IF got.raised # "none" THEN got
             ELSE NpmPackagesFrom(specs, i + 1, got.value)

\* NpmProject.packages
NpmPackages(files) ==
    LET specs == dependency_specs(files)
    IN  IF specs.raised # "none" THEN specs
        ELSE NpmPackagesFrom(specs.value, 1, <<>>)

----------------------------------------------------------------------------
(* SpecReader: one call of a Project method *)

A1 == <<"a", ">", "=", "1">>
A2 == <<"a", ">", "=", "2">>
B2 == <<"b", ">", "=", "2">>
Foo == <<"f", "o", "o">>
Marker == <<"b", ">", "=", "1", ";", "p", ">", "=", "3">>

ReaderPool == {A1, A2, Foo}

\* where a listing of the bounded file systems can stand, in reading order:
\* 1 project.dependencies, 2 project.dependency-groups (one group),
\* 3 dependency-groups (one group per listing) of the root manifest,
\* 4 project.dependencies of member m1, 5 project.dependencies of member m2
UvSlots == {1, 2, 3, 4, 5}

InOrder(p) == \A i \in 1..(Len(p) - 1) : p[i][1] <= p[i + 1][1]

UvPlacements == {p \in SeqsUpTo(UvSlots \X ReaderPool, MaxListings) : InOrder(p)}

SlotContent(p, k) ==
    LET mine == SelectSeq(p, LAMBDA e : e[1] = k)
    IN  [i \in 1..Len(mine) |-> mine[i][2]]

MemberLists == {<<>>, <<"m1">>, <<"m1", "m2">>, <<"m2", "m1">>}

MemberFile(exists, dependencies) ==
    IF exists
    THEN [exists |-> TRUE, data |-> [EmptyPyproject EXCEPT !.dependencies = dependencies]]
    ELSE AbsentPyproject

UvFiles(p, members, e1, e2) ==
    [pyproject |->
        [exists |-> TRUE,
         data |-> [dependencies |-> SlotContent(p, 1),
                   project_groups |-> IF SlotContent(p, 2) = <<>> THEN <<>>
                                      ELSE <<SlotContent(p, 2)>>,
                   groups |-> [i \in 1..Len(SlotContent(p, 3)) |-> <<SlotContent(p, 3)[i]>>],
                   members |-> members]],
     member |-> [m \in MemberNames |->
                    IF m = "m1" THEN MemberFile(e1, SlotContent(p, 4))
                    ELSE MemberFile(e2, SlotContent(p, 5))],
     package_json |-> AbsentPackageJson]

\* file systems beyond the bound: the spec's deduplication example, and a
\* listing with an environment marker ahead of a bare name
ExampleUvFiles ==
    { UvFiles(<<<<1, A1>>, <<1, B2>>, <<1, A1>>>>, <<>>, FALSE, FALSE),
      UvFiles(<<<<1, A1>>, <<4, B2>>>>, <<"m2", "m1">>, TRUE, FALSE),
      UvFiles(<<<<1, Marker>>, <<1, Foo>>>>, <<>>, FALSE, FALSE),
      UvFiles(<<<<1, Foo>>, <<1, Marker>>>>, <<>>, FALSE, FALSE) }

NpmNames == {<<"a">>, <<"b">>}

NpmSpecs ==
    { <<"^", "1">>, <<">", "=", "2">>,
      GitPlus \o <<"x">>, FileColon \o <<"x">>, HttpColon \o <<"x">>, HttpsColon \o <<"x">> }

\* 1 dependencies, 2 devDependencies, 3 peerDependencies, 4 optionalDependencies
NpmSections == {1, 2, 3, 4}

NpmPlacements ==
    {p \in SeqsUpTo(NpmSections \X (NpmNames \X NpmSpecs), MaxNpmEntries) : InOrder(p)}

NpmFiles(p) ==
    [pyproject |-> AbsentPyproject,
     member |-> [m \in MemberNames |-> AbsentPyproject],
     package_json |->
        [exists |-> TRUE,
         data |-> [dependencies |-> SlotContent(p, 1),
                   devDependencies |-> SlotContent(p, 2),
                   peerDependencies |-> SlotContent(p, 3),
                   optionalDependencies |-> SlotContent(p, 4)]]]

InitReader ==
    /\ Idle /\ arg = <<>> /\ pc = "read"
    /\ ret = [raised |-> "none", value |-> <<>>]
    /\ \/ /\ kind = "uv"
          /\ \/ fs = NoFiles
             \/ fs \in ExampleUvFiles
             \/ \E p \in UvPlacements, members \in MemberLists, e1 \in BOOLEAN, e2 \in BOOLEAN :
                    /\ e1 \/ SlotContent(p, 4) = <<>>
                    /\ e2 \/ SlotContent(p, 5) = <<>>
                    /\ fs = UvFiles(p, members, e1, e2)
       \/ /\ kind = "npm"
          /\ \/ fs = NoFiles
             \/ \E p \in NpmPlacements : fs = NpmFiles(p)

UnchangedCall ==
    UNCHANGED <<kind, fs, arg, packages, error, exitCode, installedQueries,
                newestQueries, cursor, report>>

CallDependencyListings ==
    /\ pc = "read" /\ kind = "uv"
    /\ ret' = dependency_listings(fs)
    /\ pc' = "listed"
    /\ UnchangedCall

CallUvPackages ==
    /\ pc = "read" /\ kind = "uv"
    /\ ret' = UvPackages(fs)
    /\ pc' = "converted"
    /\ UnchangedCall

CallDependencySpecs ==
    /\ pc = "read" /\ kind = "npm"
    /\ ret' = dependency_specs(fs)
    /\ pc' = "listed"
    /\ UnchangedCall

CallNpmPackages ==
    /\ pc = "read" /\ kind = "npm"
    /\ ret' = NpmPackages(fs)
    /\ pc' = "converted"
    /\ UnchangedCall

NextReader ==
    CallDependencyListings \/ CallUvPackages \/ CallDependencySpecs \/ CallNpmPackages

SpecReader == InitReader /\ [][NextReader]_vars

----------------------------------------------------------------------------
(* Version Source Adapter: what the external commands can answer *)

\* bool(value) of an Optional[str]
Truthy(v) == v # None /\ v # <<>>

\* the test of line 55 written with `is not None`
AnyInstalledNotNone(pkgs) == \E i \in 1..Len(pkgs) : pkgs[i].installed_version # None

\* any(package.installed_version for package in packages)
AnyInstalled(pkgs) == \E i \in 1..Len(pkgs) : Truthy(pkgs[i].installed_version)

\* package_map = {p.name: p for p in packages}; package_map.get(name):
\* the index of the last Package of that name, 0 for None
PackageMapGet(pkgs, name) ==
    IF \E i \in 1..Len(pkgs) : pkgs[i].name = name
    THEN CHOOSE i \in 1..Len(pkgs) :
             pkgs[i].name = name /\ \A j \in (i + 1)..Len(pkgs) : pkgs[j].name # name
    ELSE 0

\* a decoded JSON value: t is "object" (value: its (key, value) pairs),
\* "list" (value: its items), "string" (value: the str) or "number"
JObject(pairs) == [t |-> "object", value |-> pairs]
JList(items) == [t |-> "list", value |-> items]
JString(str) == [t |-> "string", value |-> str]
JNumber == [t |-> "number", value |-> <<>>]

JHas(obj, key) == \E i \in 1..Len(obj.value) : obj.value[i][1] = key

JGet(obj, key) == obj.value[CHOOSE i \in 1..Len(obj.value) : obj.value[i][1] = key][2]

\* what subprocess.run gave: ran is FALSE when it raised FileNotFoundError or
\* a SubprocessError (non-zero exit under check=True, timeout)
Failed == [ran |-> FALSE, valid |-> FALSE, stdout |-> <<>>]
\* stdout as its lines
Printed(lines) == [ran |-> TRUE, valid |-> FALSE, stdout |-> lines]
\* stdout that json.loads decodes to json
PrintedJson(json) == [ran |-> TRUE, valid |-> TRUE, stdout |-> json]
\* stdout that json.loads rejects
PrintedGarbage == [ran |-> TRUE, valid |-> FALSE, stdout |-> <<>>]

KeyName == <<"n", "a", "m", "e">>
KeyVersion == <<"v", "e", "r", "s", "i", "o", "n">>
KeyDependencies == <<"d", "e", "p", "e", "n", "d", "e", "n", "c", "i", "e", "s">>
Hash == <<"#">>
Semicolon == <<";">>
AvailableVersions == <<"A", "v", "a", "i", "l", "a", "b", "l", "e", " ", "v", "e", "r", "s", "i", "o", "n", "s", ":">>

----------------------------------------------------------------------------
(* Claims about the Spec Parser and the Manifest Reader *)

SpecOperators == {GE, LE, EQ, GT, LT}

PreComma(listing) == Head(Split(listing, Comma))

\* the operators of a text, read left to right, two-character ones first
RECURSIVE OperatorCount(_)
OperatorCount(s) ==
    IF s = <<>> THEN 0
    ELSE IF StartsWith(s, GE) \/ StartsWith(s, LE) \/ StartsWith(s, EQ)
         THEN 1 + OperatorCount(SubSeq(s, 3, Len(s)))
    ELSE IF StartsWith(s, GT) \/ StartsWith(s, LT)
         THEN 1 + OperatorCount(Tail(s))
    ELSE OperatorCount(Tail(s))

RemoveWhitespace(s) == SelectSeq(s, LAMBDA c : c \notin Whitespace)

HasNoOperator(listing) == \A op \in SpecOperators : ~Contains(PreComma(listing), op)

\* C1: a listing with exactly one operator before the first comma is parsed
\* into name, operator and version that, joined, give the text before the
\* comma with its whitespace removed (split_package_from_version returns no
\* operator: the one it split on is used).
C1_ParseRecombines ==
    (pc \in {"parsed_uv", "parsed_script"} /\ OperatorCount(PreComma(arg)) = 1) =>
        /\ ret.raised = "none"
        /\ pc = "parsed_uv" =>
              ret.value[1] \o SplitBy(PreComma(arg)) \o ret.value[2]
                  = RemoveWhitespace(PreComma(arg))
        /\ pc = "parsed_script" =>
              ret.value[1] \o ret.value[2] \o ret.value[3]
                  = RemoveWhitespace(PreComma(arg))

\* C2: a listing with no operator before the first comma makes the parser
\* raise the unknown-version-scheme error, and one such listing among the
\* dependency listings makes UvProject.packages() raise that error and
\* return nothing.
C2_BareNameFailsConversion ==
    /\ (pc = "parsed_uv" /\ HasNoOperator(arg)) =>
          ret = [raised |-> "UnknownPackageVersionSchemeError", value |-> <<>>]
    /\ (pc = "converted" /\ kind = "uv"
            /\ \E listing \in Range(dependency_listings(fs).value) : HasNoOperator(listing)) =>
          ret = [raised |-> "UnknownPackageVersionSchemeError", value |-> <<>>]

OneCharMarkers == {"^", "~", ">", "<", "="}

\* C3: _normalize_spec drops a leading >= or <= whole, else one leading
\* ^ ~ > < =, else nothing, and keeps the rest as it is.
C3_NormalizeStripsFirstMarker ==
    pc = "normalized" =>
        /\ ret.raised = "none"
        /\ ret.value =
              IF StartsWith(arg, GE) \/ StartsWith(arg, LE) THEN SubSeq(arg, 3, Len(arg))
              ELSE IF arg # <<>> /\ Head(arg) \in OneCharMarkers THEN Tail(arg)
              ELSE arg
        /\ arg \in ExampleSpecs => ret.value = <<"1", ".", "2", ".", "3">>

C3_Witness ==
    /\ pc = "normalized"
    /\ arg = <<">", "=", "1", ".", "2", ".", "3">>
    /\ ret.value = <<"1", ".", "2", ".", "3">>

\* the listings of the root manifest, then of each declared member whose
\* manifest exists, before deduplication
Flattened(files) ==
    ExtendWithMembers(files, files.pyproject.data.members, 1,
                      _collect_dependency_listings(files.pyproject.data)).value

FirstIndex(s, x) == CHOOSE i \in 1..Len(s) : s[i] = x /\ \A j \in 1..(i - 1) : s[j] # x

\* C4: dependency_listings returns each distinct listing text once, in the
\* order of first occurrence in the flattened sequence.
C4_DedupKeepsFirstOccurrence ==
    (pc = "listed" /\ kind = "uv" /\ ret.raised = "none") =>
        /\ Range(ret.value) = Range(Flattened(fs))
        /\ \A i \in 1..Len(ret.value) : \A j \in 1..Len(ret.value) :
              i < j => /\ ret.value[i] # ret.value[j]
                       /\ FirstIndex(Flattened(fs), ret.value[i])
                              < FirstIndex(Flattened(fs), ret.value[j])

C4_Witness ==
    /\ pc = "listed" /\ kind = "uv"
    /\ Flattened(fs) = <<A1, B2, A1>>
    /\ ret.value = <<A1, B2>>

\* C5: the ledger returned by packages() holds at most one Package per name.
C5_OnePackagePerName ==
    (pc = "converted" /\ ret.raised = "none") =>
        \A i \in 1..Len(ret.value) : \A j \in 1..Len(ret.value) :
            i # j => ret.value[i].name # ret.value[j].name

RootListings(files) == Range(_collect_dependency_listings(files.pyproject.data))

PresentMemberListings(files, member) ==
    IF files.member[member].exists
    THEN Range(_collect_dependency_listings(files.member[member].data))
    ELSE {}

\* 0 for a listing of the root manifest, else the position in
\* workspace.members of the first present member that lists it
SourceRank(files, listing) ==
    IF listing \in RootListings(files) THEN 0
    ELSE LET members == files.pyproject.data.members
         IN  CHOOSE k \in 1..Len(members) :
                 /\ listing \in PresentMemberListings(files, members[k])
                 /\ \A h \in 1..(k - 1) : listing \notin PresentMemberListings(files, members[h])

\* C6: with the root manifest present, dependency_listings raises nothing
\* and returns the listings of the root manifest, then those of the declared
\* members whose manifest exists, in member order; an absent member adds none.
C6_WorkspaceMerge ==
    (pc = "listed" /\ kind = "uv" /\ fs.pyproject.exists) =>
        /\ ret.raised = "none"
        /\ Range(ret.value) =
              RootListings(fs) \cup
              UNION {PresentMemberListings(fs, m) : m \in Range(fs.pyproject.data.members)}
        /\ \A i \in 1..Len(ret.value) : \A j \in 1..Len(ret.value) :
              i < j => SourceRank(fs, ret.value[i]) <= SourceRank(fs, ret.value[j])

C6_Witness ==
    /\ pc = "listed" /\ kind = "uv"
    /\ fs.pyproject.data.members = <<"m2", "m1">>
    /\ ~fs.member["m2"].exists /\ fs.member["m1"].exists
    /\ ret = [raised |-> "none", value |-> <<A1, B2>>]

IsNonRegistry(spec) ==
    \/ StartsWith(spec, GitPlus) \/ StartsWith(spec, FileColon)
    \/ StartsWith(spec, HttpColon) \/ StartsWith(spec, HttpsColon)

\* C7: a git+, file:, http: or https: value anywhere in the merged mapping
\* makes NpmProject.packages() raise the unsupported-spec error and return
\* no Package.
C7_NonRegistrySpecAborts ==
    (pc = "converted" /\ kind = "npm" /\ fs.package_json.exists
        /\ \E i \in 1..Len(dependency_specs(fs).value) :
              IsNonRegistry(dependency_specs(fs).value[i][2])) =>
        ret = [raised |-> "UnsupportedPackageTypeError", value |-> <<>>]

C7_Witness ==
    /\ pc = "converted" /\ kind = "npm"
    /\ Len(dependency_specs(fs).value) = 2
    /\ ~IsNonRegistry(dependency_specs(fs).value[1][2])
    /\ IsNonRegistry(dependency_specs(fs).value[2][2])
    /\ ret.raised = "UnsupportedPackageTypeError"

----------------------------------------------------------------------------
(* uv.py: the two fill passes of the lockfile ecosystem *)

\* lines 121-132: the report lines of `uv export` from index i on
RECURSIVE ApplyExportLines(_, _, _)
ApplyExportLines(pkgs, lines, i) ==
    IF i > Len(lines) THEN [raised |-> "none", packages |-> pkgs]
    ELSE IF StartsWith(lines[i], Hash) THEN ApplyExportLines(pkgs, lines, i + 1)
    ELSE LET cleaned == Strip(Head(Split(lines[i], Semicolon)))
         IN  IF ~Contains(cleaned, EQ) THEN ApplyExportLines(pkgs, lines, i + 1)
             ELSE LET parts == Split(cleaned, EQ)
                  IN  IF Len(parts) # 2
                      THEN [raised |-> "ValueError", packages |-> pkgs]
                      ELSE LET k == PackageMapGet(pkgs, parts[1])
                           IN  ApplyExportLines(
                                   IF k # 0
                                   THEN [pkgs EXCEPT ![k].installed_version = parts[2]]
                                   ELSE pkgs,
                                   lines, i + 1)

\* lines 108-132: the one command of `commands`
AfterExport(pkgs, export) ==
    IF ~export.ran THEN [raised |-> "none", packages |-> pkgs]
    ELSE ApplyExportLines(pkgs, export.stdout, 1)

\* info.get(key) and the truth test of line 163, for a dict info
InfoField(info, key) ==
    IF JHas(info, key) /\ JGet(info, key).t = "string" THEN JGet(info, key).value
    ELSE None

\* lines 160-167: the items of a decoded `pip list` from index i on
RECURSIVE ApplyPipItems(_, _, _)
ApplyPipItems(pkgs, items, i) ==
    IF i > Len(items) THEN [raised |-> "none", packages |-> pkgs]
    ELSE IF items[i].t # "object" THEN [raised |-> "AttributeError", packages |-> pkgs]
    ELSE LET name == InfoField(items[i], KeyName)
             version == InfoField(items[i], KeyVersion)
         IN  IF ~Truthy(name) \/ ~Truthy(version) THEN ApplyPipItems(pkgs, items, i + 1)
             ELSE LET k == PackageMapGet(pkgs, name)
                  IN  ApplyPipItems(
                          IF k # 0 THEN [pkgs EXCEPT ![k].installed_version = version]
                          ELSE pkgs,
                          items, i + 1)

\* lines 143-167: one command of `fallback_commands`; iterating a dict or a
\* str yields str items, a number is not iterable
AfterPipList(pkgs, listed) ==
    IF ~listed.ran \/ ~listed.valid THEN [raised |-> "none", packages |-> pkgs]
    ELSE LET installed == listed.stdout
         IN  IF installed.t = "number" THEN [raised |-> "TypeError", packages |-> pkgs]
             ELSE IF installed.t = "list" THEN ApplyPipItems(pkgs, installed.value, 1)
             ELSE IF installed.value = <<>> THEN [raised |-> "none", packages |-> pkgs]
             ELSE [raised |-> "AttributeError", packages |-> pkgs]

\* lines 187-193: the stdout lines of `pip index versions`
NewestFromIndex(lines) ==
    IF Len(lines) < 2 \/ ~Contains(lines[2], AvailableVersions) THEN None
    ELSE Strip(Head(Split(Strip(Flatten(Split(lines[2], AvailableVersions))), Comma)))

\* the body of the loop of set_newest_versions_uv for one package
NewestUv(package, answer) ==
    IF ~answer.ran THEN package
    ELSE IF NewestFromIndex(answer.stdout) = None THEN package
    ELSE [package EXCEPT !.newest_version = NewestFromIndex(answer.stdout)]

----------------------------------------------------------------------------
(* npm.py: the two fill passes of the registry ecosystem *)

\* lines 67-70: the entries of the decoded "dependencies" from index i on
RECURSIVE ApplyNpmEntries(_, _, _)
ApplyNpmEntries(pkgs, entries, i) ==
    IF i > Len(entries) THEN [raised |-> "none", packages |-> pkgs]
    ELSE LET k == PackageMapGet(pkgs, entries[i][1])
             info == entries[i][2]
         IN  IF k = 0 THEN ApplyNpmEntries(pkgs, entries, i + 1)
             ELSE IF info.t # "object" THEN [raised |-> "AttributeError", packages |-> pkgs]
             ELSE ApplyNpmEntries(
                      [pkgs EXCEPT ![k].installed_version = InfoField(info, KeyVersion)],
                      entries, i + 1)

\* lines 53-70 of set_installed_versions_npm, the query answered by `listed`
AfterNpmLs(pkgs, listed) ==
    IF ~listed.ran THEN [raised |-> "none", packages |-> pkgs]
    ELSE IF ~listed.valid THEN [raised |-> "JSONDecodeError", packages |-> pkgs]
    ELSE LET data == listed.stdout
         IN  IF data.t # "object" THEN [raised |-> "AttributeError", packages |-> pkgs]
             ELSE IF ~JHas(data, KeyDependencies) THEN [raised |-> "none", packages |-> pkgs]
             ELSE IF JGet(data, KeyDependencies).t # "object"
                  THEN [raised |-> "AttributeError", packages |-> pkgs]
             ELSE ApplyNpmEntries(pkgs, JGet(data, KeyDependencies).value, 1)

\* the body of the loop of set_newest_versions_npm for one package; stdout
\* is the whole text
NewestNpm(package, answer) ==
    IF ~answer.ran THEN package
    ELSE [package EXCEPT !.newest_version = Strip(answer.stdout)]

----------------------------------------------------------------------------
(* core.py: Reconciler / Reporter *)

Dash == <<"-">>
NoInstalledLine == <<"N", "o", " ", "i", "n", "s", "t", "a", "l", "l", "e", "d", " ", "v", "e", "r", "s", "i", "o", "n", "s", " ", "d", "e", "t", "e", "c", "t", "e", "d", ";", " ", "e", "n", "s", "u", "r", "e", " ", "y", "o", "u", "r", " ", "e", "n", "v", "i", "r", "o", "n", "m", "e", "n", "t", " ", "i", "s", " ", "l", "o", "c", "k", "e", "d", "/", "i", "n", "s", "t", "a", "l", "l", "e", "d", " ", "s", "o", " ", "u", "v", "b", "u", "m", "p", " ", "c", "a", "n", " ", "c", "o", "m", "p", "a", "r", "e", " ", "v", "e", "r", "s", "i", "o", "n", "s", ".">>
AllMatchLine == <<"A", "l", "l", " ", "d", "i", "s", "c", "o", "v", "e", "r", "e", "d", " ", "p", "a", "c", "k", "a", "g", "e", "s", " ", "m", "a", "t", "c", "h", " ", "i", "n", "s", "t", "a", "l", "l", "e", "d", " ", "a", "n", "d", " ", "n", "e", "w", "e", "s", "t", " ", "v", "e", "r", "s", "i", "o", "n", "s", ".">>
OutOfDateTitle == <<"P", "a", "c", "k", "a", "g", "e", "s", " ", "o", "u", "t", " ", "o", "f", " ", "d", "a", "t", "e", ":">>
CanBeBumpedTitle == <<"P", "a", "c", "k", "a", "g", "e", "s", " ", "c", "a", "n", " ", "b", "e", " ", "b", "u", "m", "p", "e", "d", ":">>
UpdateAction == <<"U", "p", "d", "a", "t", "e", " ", "p", "a", "c", "k", "a", "g", "e", " ", "v", "e", "r", "s", "i", "o", "n">>
BumpAction == <<"B", "u", "m", "p", " ", "p", "a", "c", "k", "a", "g", "e", " ", "v", "e", "r", "s", "i", "o", "n", " ", "i", "n", " ", "p", "r", "o", "j", "e", "c", "t", " ", "s", "p", "e", "c", "i", "f", "i", "c", "a", "t", "i", "o", "n">>
NameHeader == <<"P", "a", "c", "k", "a", "g", "e", " ", "N", "a", "m", "e">>
InstalledHeader == <<"I", "n", "s", "t", "a", "l", "l", "e", "d", " ", "V", "e", "r", "s", "i", "o", "n">>
ProjectHeader == <<"P", "r", "o", "j", "e", "c", "t", " ", "V", "e", "r", "s", "i", "o", "n">>
NewestHeader == <<"N", "e", "w", "e", "s", "t", " ", "V", "e", "r", "s", "i", "o", "n">>
ActionHeader == <<"S", "u", "g", "g", "e", "s", "t", "e", "d", " ", "A", "c", "t", "i", "o", "n">>

\* column_widths as main passes them
NameWidth == 50
InstalledWidth == 30
ProjectWidth == 30
NewestWidth == 30

\* f'{text:<{width}}'
Pad(text, width) ==
    IF Len(text) >= width THEN text
    ELSE text \o [i \in 1..(width - Len(text)) |-> " "]

\* fmt of log_table
fmt(value, width) == Pad(IF value # None THEN value ELSE Dash, width)

TableRow(package, suggested_action) ==
    fmt(package.name, NameWidth) \o fmt(package.installed_version, InstalledWidth)
        \o fmt(package.project_version, ProjectWidth)
        \o fmt(package.newest_version, NewestWidth) \o suggested_action

\* log_table: the lines it logs
log_table(title, rows, suggested_action) ==
    IF rows = <<>> THEN <<>>
    ELSE <<title,
           Pad(NameHeader, NameWidth) \o Pad(InstalledHeader, InstalledWidth)
               \o Pad(ProjectHeader, ProjectWidth) \o Pad(NewestHeader, NewestWidth)
               \o ActionHeader>>
         \o [i \in 1..Len(rows) |-> TableRow(rows[i], suggested_action)]

\* lines 67-69 without the bool(package.newest_version) of line 69
NewestDiffersUnchecked(package, require_newest_version) ==
    package.newest_version # package.project_version

\* lines 67-69
NewestDiffers(package, require_newest_version) ==
    IF require_newest_version
    THEN Truthy(package.newest_version) /\ package.newest_version # package.project_version
    ELSE package.newest_version # package.project_version

\* a version without its trailing ".0" groups
RECURSIVE Release(_)
Release(v) ==
    IF Len(v) > 2 /\ SubSeq(v, Len(v) - 1, Len(v)) = <<".", "0">>
    THEN Release(SubSeq(v, 1, Len(v) - 2))
    ELSE v

\* the classifying loop comparing installed and declared as releases
RECURSIVE ClassifyByRelease(_, _, _, _, _)
ClassifyByRelease(pkgs, i, require_newest_version, out_of_date, can_be_bumped) ==
    IF i > Len(pkgs) THEN [out_of_date |-> out_of_date, can_be_bumped |-> can_be_bumped]
    ELSE IF ~Truthy(pkgs[i].installed_version)
         THEN ClassifyByRelease(pkgs, i + 1, require_newest_version, out_of_date, can_be_bumped)
    ELSE ClassifyByRelease(pkgs, i + 1, require_newest_version,
                  IF NewestDiffers(pkgs[i], require_newest_version)
                  THEN Append(out_of_date, pkgs[i]) ELSE out_of_date,
                  IF Release(pkgs[i].installed_version) # Release(pkgs[i].project_version)
                  THEN Append(can_be_bumped, pkgs[i]) ELSE can_be_bumped)

\* the classifying loop without the `continue` of lines 63-64
RECURSIVE ClassifyAll(_, _, _, _, _)
ClassifyAll(pkgs, i, require_newest_version, out_of_date, can_be_bumped) ==
    IF i > Len(pkgs) THEN [out_of_date |-> out_of_date, can_be_bumped |-> can_be_bumped]
    ELSE ClassifyAll(pkgs, i + 1, require_newest_version,
                  IF NewestDiffers(pkgs[i], require_newest_version)
                  THEN Append(out_of_date, pkgs[i]) ELSE out_of_date,
                  IF pkgs[i].installed_version # pkgs[i].project_version
                  THEN Append(can_be_bumped, pkgs[i]) ELSE can_be_bumped)

\* list with package put before the first entry whose name is longer; names
\* made of one letter are in alphabetical order when they are in order of
\* length
RECURSIVE InsertByName(_, _)
InsertByName(list, package) ==
    IF list = <<>> THEN <<package>>
    ELSE IF Len(Head(list).name) > Len(package.name) THEN <<package>> \o list
    ELSE <<Head(list)>> \o InsertByName(Tail(list), package)

\* the classifying loop keeping its two lists sorted by name
RECURSIVE ClassifySorted(_, _, _, _, _)
ClassifySorted(pkgs, i, require_newest_version, out_of_date, can_be_bumped) ==
    IF i > Len(pkgs) THEN [out_of_date |-> out_of_date, can_be_bumped |-> can_be_bumped]
    ELSE IF ~Truthy(pkgs[i].installed_version)
         THEN ClassifySorted(pkgs, i + 1, require_newest_version, out_of_date, can_be_bumped)
    ELSE ClassifySorted(pkgs, i + 1, require_newest_version,
                  IF NewestDiffers(pkgs[i], require_newest_version)
                  THEN InsertByName(out_of_date, pkgs[i]) ELSE out_of_date,
                  IF pkgs[i].installed_version # pkgs[i].project_version
                  THEN InsertByName(can_be_bumped, pkgs[i]) ELSE can_be_bumped)

\* the classifying loop, lines 62-71, from index i on
RECURSIVE Classify(_, _, _, _, _)
Classify(pkgs, i, require_newest_version, out_of_date, can_be_bumped) ==
    IF i > Len(pkgs) THEN [out_of_date |-> out_of_date, can_be_bumped |-> can_be_bumped]
    ELSE IF ~Truthy(pkgs[i].installed_version)
         THEN Classify(pkgs, i + 1, require_newest_version, out_of_date, can_be_bumped)
    ELSE Classify(pkgs, i + 1, require_newest_version,
                  IF NewestDiffers(pkgs[i], require_newest_version)
                  THEN Append(out_of_date, pkgs[i]) ELSE out_of_date,
                  IF pkgs[i].installed_version # pkgs[i].project_version
                  THEN Append(can_be_bumped, pkgs[i]) ELSE can_be_bumped)

\* display_package_information: its two lists and the lines it logs
display_package_information(pkgs, require_newest_version) ==
    IF ~AnyInstalled(pkgs)
    THEN [out_of_date |-> <<>>, can_be_bumped |-> <<>>, lines |-> <<NoInstalledLine>>]
    ELSE LET lists == Classify(pkgs, 1, require_newest_version, <<>>, <<>>)
         IN  [out_of_date |-> lists.out_of_date,
              can_be_bumped |-> lists.can_be_bumped,
              lines |->
                  log_table(OutOfDateTitle, lists.out_of_date, UpdateAction)
                  \o (IF lists.out_of_date # <<>> /\ lists.can_be_bumped # <<>>
                      THEN << <<>> >> ELSE <<>>)
                  \o log_table(CanBeBumpedTitle, lists.can_be_bumped, BumpAction)
                  \o (IF lists.out_of_date = <<>> /\ lists.can_be_bumped = <<>>
                      THEN <<AllMatchLine>> ELSE <<>>)]

NoReport == [out_of_date |-> <<>>, can_be_bumped |-> <<>>, lines |-> <<>>]

----------------------------------------------------------------------------
(* __main__.py: one run of main *)

Extras == <<"a", "[", "x", "]", ">", "=", "1">>

MainListings == {A1, B2, Extras}

MainNpmEntries ==
    { <<<<"a">>, <<"^", "1">>>>, <<<<"b">>, <<">", "=", "2">>>>,
      <<<<"a">>, GitPlus \o <<"x">>>> }

MainFiles(k) ==
    IF k = "uv"
    THEN {NoFiles}
         \cup {UvFiles(p, <<>>, FALSE, FALSE) : p \in SeqsUpTo({1} \X MainListings, MaxPackages)}
         \cup { UvFiles(<<<<1, A1>>, <<1, A2>>>>, <<>>, FALSE, FALSE),
                UvFiles(<<<<1, A1>>, <<1, Foo>>>>, <<>>, FALSE, FALSE),
                UvFiles(<<<<1, A1>>, <<4, B2>>>>, <<"m2", "m1">>, TRUE, FALSE) }
    ELSE {NoFiles}
         \cup {NpmFiles(p) : p \in SeqsUpTo({1} \X MainNpmEntries, MaxPackages)}
         \cup { NpmFiles(<<<<1, <<<<"a">>, GitPlus \o <<"x">>>>>>, <<2, <<<<"a">>, <<"^", "1">>>>>>>>) }

\* what `uv export` can print, line by line
ExportLinePool ==
    { <<"a", "=", "=", "2">>, <<"a", "=", "=", "1", " ", ";", " ", "x">>, <<"b", "=", "=", "2">>, <<"#", "a", "=", "=", "9">>, <<"-", "e", " ", ".">>, <<"a", "=", "=", "1", "=", "=", "2">>, <<"A", "=", "=", "3">> }

ExportAnswers == {Failed} \cup {Printed(lines) : lines \in SeqsUpTo(ExportLinePool, MaxLines)}

InfoA2 == JObject(<<<<KeyName, JString(<<"a">>)>>, <<KeyVersion, JString(<<"2">>)>>>>)
InfoB2 == JObject(<<<<KeyName, JString(<<"b">>)>>, <<KeyVersion, JString(<<"2">>)>>>>)
InfoNoVersion == JObject(<<<<KeyName, JString(<<"a">>)>>>>)

\* what `uv pip list --format json` and `python -m pip list --format json` can
\* answer
PipListAnswers ==
    << Failed, PrintedGarbage,
       PrintedJson(JList(<<>>)),
       PrintedJson(JList(<<InfoA2>>)),
       PrintedJson(JList(<<InfoNoVersion, InfoB2>>)),
       PrintedJson(JList(<<JString(<<"a">>)>>)),
       PrintedJson(JObject(<<<<<<"a">>, JString(<<"2">>)>>>>)),
       PrintedJson(JNumber) >>

\* what `uvx pip index versions <name>` can answer
IndexAnswers ==
    { Failed, Printed(<<>>),
      Printed(<<<<"a", " ", "(", "2", ")">>, <<"A", "v", "a", "i", "l", "a", "b", "l", "e", " ", "v", "e", "r", "s", "i", "o", "n", "s", ":", " ", "2", ",", " ", "1">>>>),
      Printed(<<<<"a", " ", "(", "1", ")">>, <<"A", "v", "a", "i", "l", "a", "b", "l", "e", " ", "v", "e", "r", "s", "i", "o", "n", "s", ":", " ", "1">>>>),
      Printed(<<<<"a", " ", "(", "1", ")">>, <<"A", "v", "a", "i", "l", "a", "b", "l", "e", " ", "v", "e", "r", "s", "i", "o", "n", "s", ":">>>>),
      Printed(<<<<"a", " ", "(", "1", ")">>, <<" ", " ", "I", "N", "S", "T", "A", "L", "L", "E", "D", ":", " ", "1">>>>) }

Versioned(version) == JObject(<<<<KeyVersion, JString(version)>>>>)

\* what `npm ls --depth=0 --json` can answer
NpmLsAnswers ==
    << Failed, PrintedGarbage,
       PrintedJson(JObject(<<>>)),
       PrintedJson(JObject(<<<<KeyDependencies, JObject(<<<<<<"a">>, Versioned(<<"2">>)>>>>)>>>>)),
       PrintedJson(JObject(<<<<KeyDependencies,
            JObject(<<<<<<"a">>, Versioned(<<"1">>)>>, <<<<"b">>, Versioned(<<"3">>)>>,
                      <<<<"z">>, JString(<<"9">>)>>>>)>>>>)),
       PrintedJson(JObject(<<<<KeyDependencies, JObject(<<<<<<"a">>, JObject(<<>>)>>>>)>>>>)),
       PrintedJson(JObject(<<<<KeyDependencies, JObject(<<<<<<"a">>, JString(<<"2">>)>>>>)>>>>)),
       PrintedJson(JObject(<<<<KeyDependencies, JList(<<>>)>>>>)),
       PrintedJson(JList(<<>>)) >>

\* what `npm view <name> version` can answer
ViewAnswers == { Failed, Printed(<<"2", "\n">>), Printed(<<"1", "\n">>), Printed(<<>>) }

Init ==
    /\ Idle /\ arg = <<>> /\ pc = "start"
    /\ ret = [raised |-> "none", value |-> <<>>]
    /\ kind \in {"uv", "npm"}
    /\ fs \in MainFiles(kind)

\* lines 52-57 and 71-76 with a missing manifest not caught
AfterPackagesUncaught(got) ==
    IF got.raised # "none"
    THEN [pc |-> "done", exitCode |-> <<1>>, error |-> got.raised, packages |-> <<>>]
    ELSE [pc |-> "installed_fill", exitCode |-> <<>>, error |-> "none", packages |-> got.value]

\* lines 52-57 and 71-76: FileNotFoundError is caught and main returns 2; any
\* other exception of project.packages() leaves main uncaught and the
\* interpreter exits with status 1
AfterPackages(got) ==
    IF got.raised = "FileNotFoundError"
    THEN [pc |-> "done", exitCode |-> <<2>>, error |-> "none", packages |-> <<>>]
    ELSE IF got.raised # "none"
    THEN [pc |-> "done", exitCode |-> <<1>>, error |-> got.raised, packages |-> <<>>]
    ELSE [pc |-> "installed_fill", exitCode |-> <<>>, error |-> "none", packages |-> got.value]

UnchangedInputs == UNCHANGED <<kind, fs, arg, ret>>

\* lines 49-57; the extras validation of lines 59-63 is commented out
MainPackagesUv ==
    /\ pc = "start" /\ kind = "uv"
    /\ LET next == AfterPackages(UvPackages(fs))
       IN  /\ pc' = next.pc /\ exitCode' = next.exitCode
           /\ error' = next.error /\ packages' = next.packages
    /\ UNCHANGED <<installedQueries, newestQueries, cursor, report>>
    /\ UnchangedInputs

\* lines 68-76
MainPackagesNpm ==
    /\ pc = "start" /\ kind = "npm"
    /\ LET next == AfterPackages(NpmPackages(fs))
       IN  /\ pc' = next.pc /\ exitCode' = next.exitCode
           /\ error' = next.error /\ packages' = next.packages
    /\ UNCHANGED <<installedQueries, newestQueries, cursor, report>>
    /\ UnchangedInputs

\* an installed-version fill returns, or raises out of main, after n queries
InstalledFillEnds(result, n) ==
    /\ packages' = result.packages
    /\ installedQueries' = n
    /\ IF result.raised = "none"
       THEN pc' = "newest_fill" /\ cursor' = 1 /\ UNCHANGED <<error, exitCode>>
       ELSE pc' = "done" /\ error' = result.raised /\ exitCode' = <<1>> /\ UNCHANGED cursor
    /\ UNCHANGED <<newestQueries, report>>
    /\ UnchangedInputs

\* set_installed_versions_uv
SetInstalledVersionsUv ==
    /\ pc = "installed_fill" /\ kind = "uv"
    /\ \E export \in ExportAnswers :
         LET first == AfterExport(packages, export)
         IN  IF first.raised # "none" \/ AnyInstalled(first.packages)
             THEN InstalledFillEnds(first, 1)
             ELSE \E a \in 1..Len(PipListAnswers) :
                    LET second == AfterPipList(first.packages, PipListAnswers[a])
                    IN  IF second.raised # "none" \/ AnyInstalled(second.packages)
                        THEN InstalledFillEnds(second, 2)
                        ELSE \E b \in 1..Len(PipListAnswers) :
                               InstalledFillEnds(
                                   AfterPipList(second.packages, PipListAnswers[b]), 3)

\* set_installed_versions_npm
SetInstalledVersionsNpm ==
    /\ pc = "installed_fill" /\ kind = "npm"
    /\ \E a \in 1..Len(NpmLsAnswers) :
         InstalledFillEnds(AfterNpmLs(packages, NpmLsAnswers[a]), 1)

\* one turn of the loop of set_newest_versions_uv
SetNewestVersionUv ==
    /\ pc = "newest_fill" /\ kind = "uv" /\ cursor <= Len(packages)
    /\ \E answer \in IndexAnswers :
         packages' = [packages EXCEPT ![cursor] = NewestUv(packages[cursor], answer)]
    /\ newestQueries' = newestQueries + 1
    /\ cursor' = cursor + 1
    /\ UNCHANGED <<pc, error, exitCode, installedQueries, report>>
    /\ UnchangedInputs

\* one turn of the loop of set_newest_versions_npm
SetNewestVersionNpm ==
    /\ pc = "newest_fill" /\ kind = "npm" /\ cursor <= Len(packages)
    /\ \E answer \in ViewAnswers :
         packages' = [packages EXCEPT ![cursor] = NewestNpm(packages[cursor], answer)]
    /\ newestQueries' = newestQueries + 1
    /\ cursor' = cursor + 1
    /\ UNCHANGED <<pc, error, exitCode, installedQueries, report>>
    /\ UnchangedInputs

\* lines 81-87 reached from inside the loop of the latest-version fill
DisplayInsideLoop ==
    /\ pc = "newest_fill"
    /\ report' = display_package_information(packages, TRUE)
    /\ pc' = "done"
    /\ exitCode' = <<0>>
    /\ UNCHANGED <<packages, error, installedQueries, newestQueries, cursor>>
    /\ UnchangedInputs

\* lines 81-87: the loop is over, the report is logged and main returns 0
DisplayAndReturn ==
    /\ pc = "newest_fill" /\ cursor > Len(packages)
    /\ report' = display_package_information(packages, TRUE)
    /\ pc' = "done"
    /\ exitCode' = <<0>>
    /\ UNCHANGED <<packages, error, installedQueries, newestQueries, cursor>>
    /\ UnchangedInputs

Next ==
    \/ MainPackagesUv
    \/ MainPackagesNpm
    \/ SetInstalledVersionsUv
    \/ SetInstalledVersionsNpm
    \/ SetNewestVersionUv
    \/ SetNewestVersionNpm
    \/ DisplayAndReturn

Spec == Init /\ [][Next]_vars

----------------------------------------------------------------------------
(* Claims about the exit codes of main *)

ManifestExists == IF kind = "uv" THEN fs.pyproject.exists ELSE fs.package_json.exists

QueriesStarted == installedQueries + newestQueries

\* C8: with the required manifest absent main returns 2 at once: no external
\* query is started and nothing is reported.
C8_MissingManifestExits2 ==
    (pc # "start" /\ ~ManifestExists) =>
        /\ pc = "done" /\ exitCode = <<2>>
        /\ QueriesStarted = 0
        /\ report.lines = <<>>

C8_Witness ==
    /\ pc = "done" /\ kind = "npm" /\ ~fs.package_json.exists
    /\ exitCode = <<2>> /\ QueriesStarted = 0

\* the manifest was read and every listing converted to a Package
ConvertedCleanly ==
    IF kind = "uv" THEN UvPackages(fs).raised = "none"
    ELSE NpmPackages(fs).raised = "none"

\* a spec that cannot be version-compared is among the manifest's: for uv a
\* listing that parses to a name with "[" in it, for npm a non-registry value
UnsupportedSpecPresent ==
    IF kind = "uv"
    THEN /\ UvPackages(fs).raised = "none"
         /\ \E i \in 1..Len(UvPackages(fs).value) :
                Contains(UvPackages(fs).value[i].name, <<"[">>)
    ELSE /\ fs.package_json.exists
         /\ \E i \in 1..Len(dependency_specs(fs).value) :
                IsNonRegistry(dependency_specs(fs).value[i][2])

\* C9: with an unsupported spec in the manifest main stops with exit code 3
\* before any external query is started.
C9_UnsupportedSpecExits3 ==
    (pc # "start" /\ UnsupportedSpecPresent) =>
        /\ pc = "done" /\ exitCode = <<3>>
        /\ QueriesStarted = 0

\* C10: once the manifest is converted, whatever the external queries
\* answer, no fill pass raises: the run reaches the report and main returns 0.
C10_QueryFailuresNeverAbort ==
    (pc = "done" /\ ConvertedCleanly) =>
        /\ error = "none"
        /\ exitCode = <<0>>
        /\ report.lines # <<>>

----------------------------------------------------------------------------
(* SpecFill: one call of a fill pass on a ledger *)

\* SpecFill, SpecReport: most Packages of the ledger handed to the call
MaxLedger == 2

FillNames == {<<"a">>, <<"b">>}

\* ledgers as packages() leaves them; two listings of one name give two
\* Packages of that name
FreshLedgers == SeqsUpTo({Package(name, <<"1">>) : name \in FillNames}, MaxLedger)

\* ledgers as an installed-version fill leaves them
FilledLedgers ==
    SeqsUpTo({[Package(name, <<"1">>) EXCEPT !.installed_version = installed] :
                  name \in FillNames, installed \in {None, <<"2">>}}, MaxLedger)

\* set_installed_versions_uv without the early returns of lines 134-135 and
\* 169-170: each command is run whatever the ones before it gave
set_installed_versions_uv_all(pkgs, answers) ==
    LET first == AfterExport(pkgs, answers[1])
    IN  IF first.raised # "none"
        THEN [raised |-> first.raised, packages |-> first.packages, queries |-> 1]
        ELSE LET second == AfterPipList(first.packages, answers[2])
             IN  IF second.raised # "none"
                 THEN [raised |-> second.raised, packages |-> second.packages, queries |-> 2]
                 ELSE LET third == AfterPipList(second.packages, answers[3])
                      IN  [raised |-> third.raised, packages |-> third.packages, queries |-> 3]

\* set_installed_versions_uv, answers[1] the answer to `uv export`, answers[2]
\* and answers[3] those to the two fallback commands; queries counts the
\* commands run
set_installed_versions_uv(pkgs, answers) ==
    LET first == AfterExport(pkgs, answers[1])
    IN  IF first.raised # "none" \/ AnyInstalled(first.packages)
        THEN [raised |-> first.raised, packages |-> first.packages, queries |-> 1]
        ELSE LET second == AfterPipList(first.packages, answers[2])
             IN  IF second.raised # "none" \/ AnyInstalled(second.packages)
                 THEN [raised |-> second.raised, packages |-> second.packages, queries |-> 2]
                 ELSE LET third == AfterPipList(second.packages, answers[3])
                      IN  [raised |-> third.raised, packages |-> third.packages, queries |-> 3]

\* set_installed_versions_npm, answers[1] the answer to `npm ls`
set_installed_versions_npm(pkgs, answers) ==
    LET listed == AfterNpmLs(pkgs, answers[1])
    IN  [raised |-> listed.raised, packages |-> listed.packages, queries |-> 1]

\* set_newest_versions_uv with the loop left at the first failed query
RECURSIVE set_newest_versions_uv_stopping(_, _, _)
set_newest_versions_uv_stopping(pkgs, answers, i) ==
    IF i > Len(pkgs) \/ ~answers[i].ran
    THEN [raised |-> "none", packages |-> pkgs, queries |-> IF i > Len(pkgs) THEN i - 1 ELSE i]
    ELSE set_newest_versions_uv_stopping(
             [pkgs EXCEPT ![i] = NewestUv(pkgs[i], answers[i])], answers, i + 1)

\* set_newest_versions_uv: the loop from Package i on, answers[i] the answer
\* to the query for Package i
RECURSIVE set_newest_versions_uv(_, _, _)
set_newest_versions_uv(pkgs, answers, i) ==
    IF i > Len(pkgs) THEN [raised |-> "none", packages |-> pkgs, queries |-> i - 1]
    ELSE set_newest_versions_uv(
             [pkgs EXCEPT ![i] = NewestUv(pkgs[i], answers[i])], answers, i + 1)

\* set_newest_versions_npm, likewise
RECURSIVE set_newest_versions_npm(_, _, _)
set_newest_versions_npm(pkgs, answers, i) ==
    IF i > Len(pkgs) THEN [raised |-> "none", packages |-> pkgs, queries |-> i - 1]
    ELSE set_newest_versions_npm(
             [pkgs EXCEPT ![i] = NewestNpm(pkgs[i], answers[i])], answers, i + 1)

NoFill == [raised |-> "none", packages |-> <<>>, queries |-> 0]

InitFill ==
    /\ error = "none" /\ exitCode = <<>> /\ installedQueries = 0 /\ newestQueries = 0
    /\ cursor = 0 /\ report = NoReport
    /\ fs = <<>> /\ arg = <<>> /\ ret = NoFill
    /\ kind \in {"uv", "npm"}
    /\ \/ pc = "fresh" /\ packages \in FreshLedgers
       \/ pc = "filled" /\ packages \in FilledLedgers

UnchangedLedger ==
    UNCHANGED <<kind, fs, packages, error, exitCode, installedQueries,
                newestQueries, cursor, report>>

\* arg keeps the answers the call consumed
CallSetInstalledVersionsUv ==
    /\ pc = "fresh" /\ kind = "uv"
    /\ \E export \in ExportAnswers, a \in 1..Len(PipListAnswers), b \in 1..Len(PipListAnswers) :
         LET answers == <<export, PipListAnswers[a], PipListAnswers[b]>>
             result == set_installed_versions_uv(packages, answers)
         IN  /\ ret' = result
             /\ arg' = SubSeq(answers, 1, result.queries)
    /\ pc' = "installed_filled"
    /\ UnchangedLedger

CallSetInstalledVersionsNpm ==
    /\ pc = "fresh" /\ kind = "npm"
    /\ \E a \in 1..Len(NpmLsAnswers) :
         /\ arg' = <<NpmLsAnswers[a]>>
         /\ ret' = set_installed_versions_npm(packages, arg')
    /\ pc' = "installed_filled"
    /\ UnchangedLedger

CallSetNewestVersionsUv ==
    /\ pc = "filled" /\ kind = "uv"
    /\ \E answers \in [1..Len(packages) -> IndexAnswers] :
         /\ arg' = answers
         /\ ret' = set_newest_versions_uv(packages, answers, 1)
    /\ pc' = "newest_filled"
    /\ UnchangedLedger

CallSetNewestVersionsNpm ==
    /\ pc = "filled" /\ kind = "npm"
    /\ \E answers \in [1..Len(packages) -> ViewAnswers] :
         /\ arg' = answers
         /\ ret' = set_newest_versions_npm(packages, answers, 1)
    /\ pc' = "newest_filled"
    /\ UnchangedLedger

NextFill ==
    \/ CallSetInstalledVersionsUv
    \/ CallSetInstalledVersionsNpm
    \/ CallSetNewestVersionsUv
    \/ CallSetNewestVersionsNpm

SpecFill == InitFill /\ [][NextFill]_vars

----------------------------------------------------------------------------
(* Claims about the fill passes *)

\* the latest-version fill of this kind on the one-Package ledger <<package>>
NewestAlone(package, answer) ==
    IF kind = "uv" THEN set_newest_versions_uv(<<package>>, <<answer>>, 1).packages[1]
    ELSE set_newest_versions_npm(<<package>>, <<answer>>, 1).packages[1]

\* the query gave no output to parse: it failed, or (uv) printed fewer than
\* the two lines the version list needs
NoVersionReturned(answer) ==
    ~answer.ran \/ (kind = "uv" /\ Len(answer.stdout) < 2)

\* C11: in the latest-version fill every Package gets its own query; a
\* Package whose query failed or gave nothing to parse keeps latest_version
\* absent, and every Package ends as the fill of that Package alone with its
\* own answer leaves it, whatever the queries of the others answered.
C11_NewestFillIsPerPackage ==
    pc = "newest_filled" =>
        /\ ret.raised = "none"
        /\ ret.queries = Len(packages)
        /\ Len(ret.packages) = Len(packages)
        /\ \A i \in 1..Len(packages) :
              /\ ret.packages[i] = NewestAlone(packages[i], arg[i])
              /\ [ret.packages[i] EXCEPT !.newest_version = None] = packages[i]
              /\ NoVersionReturned(arg[i]) => ret.packages[i] = packages[i]

C11_Witness ==
    /\ pc = "newest_filled" /\ Len(packages) = 2
    /\ ~arg[1].ran /\ arg[2].ran
    /\ ret.packages[1].newest_version = None
    /\ ret.packages[2].newest_version = <<"2">>

\* the (name, version) pairs of a report of `uv export`: a line that is no
\* comment and, cut at ";" and trimmed, reads name==version
ExportReported(answer) ==
    IF ~answer.ran THEN {}
    ELSE { <<Split1(c, EQ)[1], Split1(c, EQ)[2]>> :
             c \in { d \in { Strip(Head(Split(answer.stdout[j], Semicolon))) :
                               j \in { k \in 1..Len(answer.stdout) :
                                         ~StartsWith(answer.stdout[k], Hash) } } :
                       Contains(d, EQ) } }

\* the (name, version) pairs of a `pip list` report: the objects of the list
\* that carry both
PipReported(answer) ==
    IF ~answer.ran \/ ~answer.valid THEN {}
    ELSE IF answer.stdout.t # "list" THEN {}
    ELSE { <<InfoField(answer.stdout.value[j], KeyName),
             InfoField(answer.stdout.value[j], KeyVersion)>> :
             j \in { k \in 1..Len(answer.stdout.value) :
                       /\ answer.stdout.value[k].t = "object"
                       /\ Truthy(InfoField(answer.stdout.value[k], KeyName))
                       /\ Truthy(InfoField(answer.stdout.value[k], KeyVersion)) } }

\* the (name, version) pairs of an `npm ls` report: the entries of its
\* "dependencies" that carry a version
NpmReported(answer) ==
    IF ~answer.ran \/ ~answer.valid THEN {}
    ELSE IF answer.stdout.t # "object" THEN {}
    ELSE IF ~JHas(answer.stdout, KeyDependencies) THEN {}
    ELSE IF JGet(answer.stdout, KeyDependencies).t # "object" THEN {}
    ELSE LET entries == JGet(answer.stdout, KeyDependencies).value
         IN  { <<entries[j][1], InfoField(entries[j][2], KeyVersion)>> :
                 j \in { k \in 1..Len(entries) :
                           /\ entries[k][2].t = "object"
                           /\ InfoField(entries[k][2], KeyVersion) # None } }

\* the pairs of all the reports the fill consumed
Reported ==
    IF kind = "npm" THEN NpmReported(arg[1])
    ELSE ExportReported(arg[1])
         \cup UNION { PipReported(arg[j]) : j \in 2..Len(arg) }

ReportedNames == { pair[1] : pair \in Reported }

\* C20: the installed-version fill keeps the ledger's entries and their
\* order, changes no name, declared_version or latest_version, gives a
\* Package a version only if the report holds that version for exactly its
\* name, and gives every Package whose name the report holds with a version
\* such a version.
C20_InstalledFillFrame ==
    pc = "installed_filled" =>
        /\ Len(ret.packages) = Len(packages)
        /\ \A i \in 1..Len(packages) :
              /\ [ret.packages[i] EXCEPT !.installed_version = None] = packages[i]
              /\ ret.packages[i].installed_version # None =>
                    <<packages[i].name, ret.packages[i].installed_version>> \in Reported
              /\ packages[i].name \in ReportedNames =>
                    <<packages[i].name, ret.packages[i].installed_version>> \in Reported

----------------------------------------------------------------------------
(* SpecReport: one call of display_package_information on a ledger *)

DeclaredVersions == {<<"1">>, <<"1", ".", "0">>}

\* what the fill passes can leave in a version field: None, the empty str of
\* a report without text, or a version
FilledVersions == {None, <<>>, <<"1">>}

\* the name of the i-th Package: i times "p"
NameOf(i) == [j \in 1..i |-> "p"]

ReportLedgers ==
    UNION { { [i \in 1..n |->
                 [name |-> NameOf(i), project_version |-> f[i][1],
                  installed_version |-> f[i][2], newest_version |-> f[i][3]]] :
              f \in [1..n -> DeclaredVersions \X FilledVersions \X FilledVersions] } :
            n \in 0..MaxLedger }

OneRow(project_version, installed_version, newest_version) ==
    << [name |-> NameOf(1), project_version |-> project_version,
        installed_version |-> installed_version, newest_version |-> newest_version] >>

\* declared "1.0", installed "1.0", latest "1.2"
LatestAhead == OneRow(<<"1", ".", "0">>, <<"1", ".", "0">>, <<"1", ".", "2">>)
\* declared "1.0", installed "1.1", latest "1.1"
InstalledAhead == OneRow(<<"1", ".", "0">>, <<"1", ".", "1">>, <<"1", ".", "1">>)

\* a ledger whose names are not in alphabetical order: "pp" before "p", both
\* declared "1.0" with "1" installed and latest
NamesDescending ==
    << [name |-> NameOf(2), project_version |-> <<"1", ".", "0">>,
        installed_version |-> <<"1">>, newest_version |-> <<"1">>],
       [name |-> NameOf(1), project_version |-> <<"1", ".", "0">>,
        installed_version |-> <<"1">>, newest_version |-> <<"1">>] >>

\* arg is require_newest_version
InitReport ==
    /\ error = "none" /\ exitCode = <<>> /\ installedQueries = 0 /\ newestQueries = 0
    /\ cursor = 0 /\ report = NoReport
    /\ fs = <<>> /\ kind = "none" /\ ret = [raised |-> "none", value |-> <<>>]
    /\ pc = "ledger"
    /\ arg \in BOOLEAN
    /\ packages \in ReportLedgers \cup {LatestAhead, InstalledAhead, NamesDescending}

CallDisplayPackageInformation ==
    /\ pc = "ledger"
    /\ report' = display_package_information(packages, arg)
    /\ pc' = "displayed"
    /\ UNCHANGED <<kind, fs, arg, ret, packages, error, exitCode, installedQueries,
                   newestQueries, cursor>>

NextReport == CallDisplayPackageInformation

SpecReport == InitReport /\ [][NextReport]_vars

----------------------------------------------------------------------------
(* Claims about the two partitions *)

\* the field has a value: it is neither None nor the empty str
Known(version) == version # None /\ version # <<>>

InList(package, list) == \E j \in 1..Len(list) : list[j] = package

\* C12: a Package is in can_be_bumped exactly when its installed_version is
\* known and differs from declared_version as a str, whatever latest_version
\* and the flag are ("1" and "1.0" differ).
C12_CanBeBumpedIsStringInequality ==
    pc = "displayed" =>
        \A i \in 1..Len(packages) :
            InList(packages[i], report.can_be_bumped)
                <=> /\ Known(packages[i].installed_version)
                    /\ packages[i].installed_version # packages[i].project_version

C12_Witness ==
    /\ pc = "displayed" /\ Len(packages) = 2
    /\ packages[1].project_version = <<"1", ".", "0">>
    /\ packages[1].installed_version = <<"1">>
    /\ packages[2].project_version = packages[2].installed_version
    /\ report.can_be_bumped = <<packages[1]>>

\* C13: with require_newest_version a Package with a known installed_version
\* is in out_of_date exactly when its latest_version is known and differs
\* from declared_version as a str; 1.0/1.0/1.2 is in out_of_date only, and
\* 1.0/1.1/1.1 is in both lists.
C13_OutOfDateNeedsKnownLatest ==
    (pc = "displayed" /\ arg = TRUE) =>
        /\ \A i \in 1..Len(packages) :
              Known(packages[i].installed_version) =>
                  (InList(packages[i], report.out_of_date)
                      <=> /\ Known(packages[i].newest_version)
                          /\ packages[i].newest_version # packages[i].project_version)
        /\ packages = LatestAhead =>
              report.out_of_date = LatestAhead /\ report.can_be_bumped = <<>>
        /\ packages = InstalledAhead =>
              report.out_of_date = InstalledAhead /\ report.can_be_bumped = InstalledAhead

C13_Witness ==
    /\ pc = "displayed" /\ arg = TRUE /\ Len(packages) = 2
    /\ Known(packages[1].installed_version) /\ packages[1].newest_version = None
    /\ Known(packages[2].installed_version) /\ Known(packages[2].newest_version)
    /\ report.out_of_date = <<packages[2]>>

\* C14: a Package without installed_version is in neither list, whatever its
\* other fields, the flag and the other Packages are.
C14_NoInstalledNoPartition ==
    pc = "displayed" =>
        \A i \in 1..Len(packages) :
            ~Known(packages[i].installed_version) =>
                /\ ~InList(packages[i], report.can_be_bumped)
                /\ ~InList(packages[i], report.out_of_date)

C14_Witness ==
    /\ pc = "displayed" /\ arg = FALSE /\ Len(packages) = 2
    /\ packages[1].installed_version = None
    /\ packages[1].newest_version = <<"1">>
    /\ packages[1].project_version = <<"1", ".", "0">>
    /\ report.out_of_date = <<packages[2]>>
    /\ report.can_be_bumped = <<packages[2]>>

\* C15: when no Package has an installed_version the report is the one
\* explanatory line: no title, header or row, whatever the other fields are.
C15_NoInstalledSingleLine ==
    (pc = "displayed" /\ \A i \in 1..Len(packages) : ~Known(packages[i].installed_version)) =>
        /\ report.lines = <<NoInstalledLine>>
        /\ report.out_of_date = <<>> /\ report.can_be_bumped = <<>>

C15_Witness ==
    /\ pc = "displayed" /\ Len(packages) = 2
    /\ packages[1].installed_version = None /\ packages[2].installed_version = <<>>
    /\ packages[1].newest_version = <<"1">>
    /\ packages[1].project_version = <<"1", ".", "0">>
    /\ report.lines = <<NoInstalledLine>>

----------------------------------------------------------------------------
(* Claims about the report of a run of main *)

\* a logged line is a table row: as wide as the four columns and not the header
IsRow(line) ==
    /\ Len(line) >= NameWidth + InstalledWidth + ProjectWidth + NewestWidth
    /\ ~StartsWith(line, NameHeader)

\* the text of a column of a row, its padding removed
Column(line, before, width) == Strip(SubSeq(line, before + 1, before + width))

InstalledColumn(line) == Column(line, NameWidth, InstalledWidth)
ProjectColumn(line) == Column(line, NameWidth + InstalledWidth, ProjectWidth)
NewestColumn(line) == Column(line, NameWidth + InstalledWidth + ProjectWidth, NewestWidth)

\* C16: no version column of a printed row is blank, and the row of a listed
\* Package that lacks a latest_version (its query failed or printed nothing)
\* shows "-" in that column.
C16_MissingFieldsShowPlaceholder ==
    pc = "done" =>
        /\ \A j \in 1..Len(report.lines) :
              IsRow(report.lines[j]) =>
                  /\ InstalledColumn(report.lines[j]) # <<>>
                  /\ ProjectColumn(report.lines[j]) # <<>>
                  /\ NewestColumn(report.lines[j]) # <<>>
        /\ \A i \in 1..Len(report.can_be_bumped) :
              ~Known(report.can_be_bumped[i].newest_version) =>
                  NewestColumn(TableRow(report.can_be_bumped[i], BumpAction)) = Dash

----------------------------------------------------------------------------
(* Claims about the operator the Spec Parser splits on *)

\* the priority order of the operators
OperatorPriority == <<GE, LE, EQ, GT, LT>>

\* the first operator of the priority order that occurs in the text
FirstByPriority(text) ==
    OperatorPriority[CHOOSE i \in 1..Len(OperatorPriority) :
        /\ Contains(text, OperatorPriority[i])
        /\ \A j \in 1..(i - 1) : ~Contains(text, OperatorPriority[j])]

\* the text before and the text after the first occurrence of op, trimmed
TrimmedBefore(text, op) == Strip(SubSeq(text, 1, Find(text, op, 1) - 1))
TrimmedAfter(text, op) == Strip(SubSeq(text, Find(text, op, 1) + Len(op), Len(text)))

\* C17: for a listing with an operator before the first comma the parser
\* does not raise; it splits at the first occurrence of the first operator
\* of the order >=, <=, ==, >, < that occurs, and returns the trimmed text
\* before it as the name and the trimmed text after it as the version.
C17_SplitsAtFirstOperatorByPriority ==
    (pc \in {"parsed_uv", "parsed_script"} /\ ~HasNoOperator(arg)) =>
        LET text == PreComma(arg)
            op == FirstByPriority(text)
        IN  /\ ret.raised = "none"
            /\ ret.value[1] = TrimmedBefore(text, op)
            /\ ret.value[Len(ret.value)] = TrimmedAfter(text, op)
            /\ pc = "parsed_script" => ret.value[2] = op

----------------------------------------------------------------------------
(* Claims about the order of the phases of main *)

\* manifest read and conversion, installed-version fill, latest-version
\* queries, report written or run ended
PhaseRank ==
    CASE pc = "start" -> 0
      [] pc = "installed_fill" -> 1
      [] pc = "newest_fill" -> 2
      [] pc = "done" -> 3

\* C18: the phases of a run follow each other in the order manifest read and
\* conversion, installed-version fill, latest-version queries one Package at
\* a time in ledger order, report: installed-version queries start only in
\* their phase and before any latest-version query, each latest-version query
\* is for the next Package of the ledger and touches that Package alone, and
\* the report is written only once every Package has had its query and
\* leaves the ledger as it is.
C18_PhasesInOrder ==
    [][ /\ PhaseRank' >= PhaseRank
        /\ installedQueries' # installedQueries =>
              /\ pc = "installed_fill"
              /\ newestQueries = 0 /\ newestQueries' = 0
              /\ report' = NoReport
        /\ newestQueries' # newestQueries =>
              /\ pc = "newest_fill" /\ pc' = "newest_fill"
              /\ installedQueries' = installedQueries
              /\ newestQueries' = newestQueries + 1
              /\ newestQueries' <= Len(packages)
              /\ Len(packages') = Len(packages)
              /\ \A i \in 1..Len(packages) : i # newestQueries' => packages'[i] = packages[i]
              /\ report' = NoReport
        /\ report' # report =>
              /\ pc = "newest_fill" /\ pc' = "done"
              /\ newestQueries = Len(packages)
              /\ installedQueries' = installedQueries /\ newestQueries' = newestQueries
              /\ packages' = packages
        /\ packages' # packages => pc # "done" /\ report' = NoReport
      ]_vars

C18_Witness ==
    /\ pc = "done" /\ exitCode = <<0>>
    /\ Len(packages) = 2
    /\ installedQueries = 3 /\ newestQueries = 2
    /\ packages[1].newest_version = None /\ packages[2].newest_version # None
    /\ Len(report.lines) > 1

----------------------------------------------------------------------------
(* Claims about the number of installed-version queries *)

GivesVersion(pairs) ==
    \E i \in 1..Len(packages) : \E pair \in pairs :
        pair[1] = packages[i].name /\ pair[2] # <<>>

----------------------------------------------------------------------------
(* Claims about the order of the partitions *)

\* the Packages of the ledger that are in list, in ledger order
InLedgerOrder(list) == SelectSeq(packages, LAMBDA package : InList(package, list))

\* the table rows among the logged lines, in the order they were logged
PrintedRows == SelectSeq(report.lines, IsRow)

RowsOf(list, suggested_action) == [i \in 1..Len(list) |-> TableRow(list[i], suggested_action)]

\* C21: each partition holds its Packages in the order of the ledger, each
\* once, whatever their names and versions are, and the rows printed are
\* those of out_of_date and then of can_be_bumped in that same order.
C21_PartitionsKeepLedgerOrder ==
    pc = "displayed" =>
        /\ report.out_of_date = InLedgerOrder(report.out_of_date)
        /\ report.can_be_bumped = InLedgerOrder(report.can_be_bumped)
        /\ PrintedRows = RowsOf(report.out_of_date, UpdateAction)
                             \o RowsOf(report.can_be_bumped, BumpAction)

C21_Witness ==
    /\ pc = "displayed" /\ packages = NamesDescending
    /\ report.out_of_date = NamesDescending
    /\ report.can_be_bumped = NamesDescending
    /\ Len(PrintedRows) = 4
    /\ PrintedRows[1] = TableRow(packages[1], UpdateAction)
    /\ PrintedRows[4] = TableRow(packages[2], BumpAction)

====
